---- MODULE Spec2Model ----
(***************************************************************************)
(* The upload page's client script, in its two variants:                   *)
(*   src/script.js          drop area, file summary, remove button,        *)
(*                          processing overlay with simulated progress     *)
(*   src/unnamed/part_000   drop zone, one-line summary, progress container*)
(* A page loads exactly one of the two scripts.  The DOM the script reads  *)
(* and writes is one record, dom; the progress values captured by the      *)
(* interval callbacks are the sequence timers.                             *)
(***************************************************************************)
EXTENDS Integers, Sequences, FiniteSets, TLC

VARIABLES page, dom, timers, lastEv, bytes, formatted

vars == <<page, dom, timers, lastEv, bytes, formatted>>

(***************************************************************************)
(* Byte counts.  File.size is a non-negative integer below 2^53; it is     *)
(* kept as five base-1024 digits, least significant first, so that sizes   *)
(* of 1024^4 and more are exact.                                           *)
(***************************************************************************)
k == 1024

sizes == <<"Bytes", "KB", "MB", "GB">>

\* the byte count n (n < 2^31) as base-k digits
ByteCount(n) ==
    << n % k, (n \div k) % k, ((n \div k) \div k) % k,
       (((n \div k) \div k) \div k) % k, 0 >>

IsZeroBytes(b) == \A j \in DOMAIN b : b[j] = 0

\* Math.floor(Math.log(bytes) / Math.log(k)) for bytes > 0: the position of
\* the leading base-k digit (exact in double arithmetic below 2^49).
floorLogK(b) ==
    CHOOSE i \in 0..(Len(b) - 1) :
        /\ b[i + 1] # 0
        /\ \A j \in (i + 2)..Len(b) : b[j] = 0

RECURSIVE IntPart(_, _)
\* integer part of b / k^i
IntPart(b, i) ==
    IF i + 1 > Len(b) THEN 0
    ELSE b[i + 1] + k * IntPart(b, i + 1)

\* fraction digits of b / k^i, most significant first
FracPart(b, i) ==
    LET n == IF i < Len(b) THEN i ELSE Len(b)
    IN  [j \in 1..n |-> b[n - j + 1]]

\* bytes / Math.pow(k, i): an exact quotient (division by a power of two)
Quotient(b, i) == [int |-> IntPart(b, i), frac |-> FracPart(b, i)]

RECURSIVE MulFrac(_, _)
\* the base-k fraction f times the small integer m: carry and new fraction
MulFrac(f, m) ==
    IF f = <<>> THEN [int |-> 0, frac |-> <<>>]
    ELSE LET rest == MulFrac(Tail(f), m)
             t    == Head(f) * m + rest.int
         IN  [int |-> t \div k, frac |-> <<t % k>> \o rest.frac]

\* Number.prototype.toFixed(2): the decimal numeral with two fraction digits
\* nearest to x, the larger one on a tie.
toFixed2(x) ==
    LET p  == MulFrac(x.frac, 100)
        up == IF p.frac # <<>> /\ 2 * Head(p.frac) >= k THEN 1 ELSE 0
        h  == 100 * x.int + p.int + up
    IN  [int |-> h \div 100, d1 |-> (h % 100) \div 10, d2 |-> h % 10]

\* the text of a toFixed(2) numeral, as a template literal interpolates it
NumeralText(n) ==
    ToString(n.int) \o "." \o ToString(n.d1) \o ToString(n.d2)

\* parseFloat of a toFixed(2) numeral: the number, in hundredths
parseFloat(n) == 100 * n.int + 10 * n.d1 + n.d2

\* Number-to-string conversion of a number given in hundredths: the
\* shortest decimal, without trailing zeros
NumberToString(h) ==
    IF h % 100 = 0 THEN ToString(h \div 100)
    ELSE IF h % 10 = 0
         THEN ToString(h \div 100) \o "." \o ToString((h % 100) \div 10)
         ELSE ToString(h \div 100) \o "." \o ToString((h % 100) \div 10)
                                   \o ToString(h % 10)

\* sizes[i] of the script (0-based); past the end of the array it is
\* undefined, which string concatenation renders as "undefined"
sizeLabel(i) == IF i + 1 \in DOMAIN sizes THEN sizes[i + 1] ELSE "undefined"

formatFileSize(b) ==
    IF IsZeroBytes(b) THEN "0 Bytes"
    ELSE LET i == floorLogK(b)
         IN  NumberToString(parseFloat(toFixed2(Quotient(b, i))))
                 \o " " \o sizeLabel(i)

(***************************************************************************)
(* Files and file lists the user can drop or pick.                         *)
(***************************************************************************)
MaxFiles == 2

MaxTopDigit == 1

MaxTimers == 2

\* elements of the page that carry a title attribute
MaxTitled == 2

\* tooltip elements the model lets the document hold
MaxTooltips == 4

\* document.querySelectorAll('[title]')
Titled == 1..MaxTitled

\* element.title
title(el) == "title " \o ToString(el)

sampleCsv == [name |-> "sample.csv", size |-> ByteCount(2048)]

notesTxt == [name |-> "notes.txt", size |-> ByteCount(1536)]

UserFiles == {sampleCsv, notesTxt}

\* the File that loadSample builds from its CSV literal (443 bytes of text)
sampleProviders == [name |-> "sample_providers.csv", size |-> ByteCount(443)]

FileLists == UNION {[1..n -> UserFiles] : n \in 0..MaxFiles}

(***************************************************************************)
(* Simulated progress.  progress is a double; it is kept in units of       *)
(* 1/Scale percent, and Math.random() * 10 ranges over the multiples of    *)
(* Grain units in [0, 10).                                                 *)
(***************************************************************************)
Scale == 2

Grain == 5

RandomIncrements == {r \in 0..(10 * Scale - 1) : r % Grain = 0}

\* Math.round: the nearest integer, the larger one on a tie
Round(p) == (2 * p + Scale) \div (2 * Scale)

(***************************************************************************)
(* The page as loaded: nothing selected, summary hidden, prompt shown,     *)
(* overlay hidden, submit enabled.  Text the script has not written yet is *)
(* the empty string.                                                       *)
(***************************************************************************)
InitialDom ==
    [ files                    |-> <<>>,      \* fileInput.files
      fileName                 |-> "",        \* #file-name textContent
      fileSize                 |-> "",        \* #file-size textContent
      fileInfoDisplay          |-> "none",    \* #file-info
      uploadPromptDisplay      |-> "block",   \* .upload-prompt
      borderColor              |-> "",        \* #drop-area style
      backgroundColor          |-> "",
      processingOverlayDisplay |-> "none",    \* #processing-overlay
      submitBtnDisabled        |-> FALSE,     \* #submit-btn
      progressBarWidth         |-> 0,         \* #progress-bar width, in units
      progressText             |-> "",        \* #progress-text
      processingText           |-> "",        \* #processing-text
      progressInterval         |-> 0,         \* uploadForm.dataset (0: unset)
      optionsChecked           |-> FALSE,     \* every .ai-options checkbox
      dragging                 |-> FALSE,     \* #dropZone class 'dragging'
      selectedFile             |-> [strong |-> "", text |-> ""],
                                              \* #selectedFileContainer innerHTML
      progressContainerDisplay |-> "none",    \* #progressContainer
      pickerOpen               |-> FALSE,     \* the file picker dialog
      propagationStopped       |-> FALSE,     \* of the event being dispatched
      body                     |-> <<>>,      \* div.tooltip children of body
      tooltipId                |-> [el \in Titled |-> ""],
                                              \* element.dataset ("": unset)
      hovered                  |-> {},        \* elements under the pointer
      uncaught                 |-> "none" ]   \* what the last listener threw

(***************************************************************************)
(* src/script.js                                                           *)
(***************************************************************************)
highlight(d) ==
    [d EXCEPT !.borderColor = "#2563eb", !.backgroundColor = "#f8fafc"]

\* (mutant) the border colour is not reset
unhighlightKeepsBorder(d) == [d EXCEPT !.backgroundColor = ""]

unhighlight(d) ==
    [d EXCEPT !.borderColor = "#e2e8f0", !.backgroundColor = ""]

\* (mutant) the name is appended to the name text, not assigned
updateFileInfoAppendsName(d, file) ==
    [d EXCEPT !.fileName = d.fileName \o file.name,
              !.fileSize = formatFileSize(file.size),
              !.fileInfoDisplay = "flex",
              !.uploadPromptDisplay = "none"]

updateFileInfo(d, file) ==
    [d EXCEPT !.fileName = file.name,
              !.fileSize = formatFileSize(file.size),
              !.fileInfoDisplay = "flex",
              !.uploadPromptDisplay = "none"]

handleFiles(d, files) ==
    IF Len(files) > 0
    THEN [updateFileInfo(d, files[1]) EXCEPT !.files = files]
    ELSE d

\* the drop listeners of the drop area, in registration order
handleDrop(d, files) == handleFiles(unhighlight(d), files)

\* (mutant) the change listener shows the last picked file
fileInputChangeLast(d, files) ==
    LET picked == [d EXCEPT !.files = files]
    IN  IF Len(picked.files) > 0
        THEN updateFileInfo(picked, picked.files[Len(picked.files)])
        ELSE picked

\* the change listener; the picker has already put its files in the input
fileInputChange(d, files) ==
    LET picked == [d EXCEPT !.files = files]
    IN  IF Len(picked.files) > 0
        THEN updateFileInfo(picked, picked.files[1])
        ELSE picked

\* (mutant) the input keeps its files
removeFileKeepsInput(d) ==
    [d EXCEPT !.propagationStopped = TRUE,
              !.fileInfoDisplay = "none",
              !.uploadPromptDisplay = "block"]

\* (mutant) the click is left to bubble
removeFileBubbles(d) ==
    [d EXCEPT !.files = <<>>,
              !.fileInfoDisplay = "none",
              !.uploadPromptDisplay = "block"]

\* the remove button's click listener; value = '' empties the input
removeFile(d) ==
    [d EXCEPT !.propagationStopped = TRUE,
              !.files = <<>>,
              !.fileInfoDisplay = "none",
              !.uploadPromptDisplay = "block"]

\* a click that reaches the drop area opens the file picker (the area's
\* click behaviour is in the page's markup)
dropAreaClick(d) == [d EXCEPT !.pickerOpen = TRUE]

\* (mutant) the submit control is left enabled
showProcessingOnly(d) ==
    [d EXCEPT !.processingOverlayDisplay = "flex"]

\* the submit listener, up to the call of setInterval
showProcessing(d) ==
    [d EXCEPT !.processingOverlayDisplay = "flex",
              !.submitBtnDisabled = TRUE]

\* (mutant) the handle is not stored on the form
uploadFormSubmitNoHandle(d, id) == showProcessing(d)

\* the submit listener; id is the handle setInterval returns
uploadFormSubmit(d, id) == [showProcessing(d) EXCEPT !.progressInterval = id]

\* (mutant) the clamp stops one increment short of 90
nextProgressBelowCap(p, r) ==
    IF p + r >= 90 * Scale THEN 90 * Scale - Grain ELSE p + r

\* (mutant) the cap applied at 100 instead of 90
nextProgressCap100(p, r) ==
    IF p + r > 100 * Scale THEN 100 * Scale ELSE p + r

\* the new value of progress in the interval callback
nextProgress(p, r) == IF p + r > 90 * Scale THEN 90 * Scale ELSE p + r

\* (mutant) the thresholds compared with <= instead of <
statusTextInclusive(p) ==
    IF p <= 30 * Scale THEN "Validating file format..."
    ELSE IF p <= 60 * Scale THEN "Initializing AI agent..."
    ELSE "Cleaning and enriching data..."

statusText(p) ==
    IF p < 30 * Scale THEN "Validating file format..."
    ELSE IF p < 60 * Scale THEN "Initializing AI agent..."
    ELSE "Cleaning and enriching data..."

\* what the interval callback writes for the new progress p
progressTick(d, p) ==
    [d EXCEPT !.progressBarWidth = p,
              !.progressText = ToString(Round(p)) \o "% Complete",
              !.processingText = statusText(p)]

\* (mutant) the checkboxes are left as they are
loadSampleNoOptions(d) ==
    updateFileInfo([d EXCEPT !.files = <<sampleProviders>>], sampleProviders)

loadSample(d) ==
    [updateFileInfo([d EXCEPT !.files = <<sampleProviders>>], sampleProviders)
        EXCEPT !.optionsChecked = TRUE]

\* what a DOMStringMap keeps when a div element is assigned to an entry: the
\* element converted to a string
DOMString(node) == "[object " \o node.interface \o "]"

\* the mouseenter listener of a titled element
mouseenter(d, el) ==
    LET tooltip == [interface |-> "HTMLDivElement", className |-> "tooltip",
                    textContent |-> title(el)]
    IN  [d EXCEPT !.body = Append(@, tooltip),
                  !.tooltipId[el] = DOMString(tooltip)]

\* the mouseleave listener of a titled element: the entry read back is a
\* string, a string has no remove method, and the call throws before the
\* entry is deleted
mouseleave(d, el) ==
    IF d.tooltipId[el] # ""
    THEN [d EXCEPT !.uncaught = "TypeError"]
    ELSE d

(***************************************************************************)
(* src/unnamed/part_000                                                    *)
(***************************************************************************)
\* files[0] of an empty FileList
undefined == [undefined |-> TRUE]

\* showFile; reading file.size of undefined throws a TypeError
showFile(d, file) ==
    IF "size" \notin DOMAIN file
    THEN [d EXCEPT !.uncaught = "TypeError"]
    ELSE LET size == NumeralText(toFixed2(Quotient(file.size, 1)))
         IN  [d EXCEPT !.selectedFile =
                  [strong |-> file.name, text |-> " (" \o size \o " KB)"]]

firstFile(files) == IF Len(files) > 0 THEN files[1] ELSE undefined

\* the drop listeners of the drop zone, in registration order
dropZoneDrop(d, files) ==
    LET cleared == [d EXCEPT !.dragging = FALSE, !.files = files]
    IN  showFile(cleared, firstFile(cleared.files))

fileInputChangeB(d, files) ==
    LET picked == [d EXCEPT !.files = files]
    IN  IF Len(picked.files) > 0
        THEN showFile(picked, picked.files[1])
        ELSE picked

\* the drop zone's click listener: fileInput.click()
dropZoneClick(d) == [d EXCEPT !.pickerOpen = TRUE]

uploadFormSubmitB(d) == [d EXCEPT !.progressContainerDisplay = "flex"]

(***************************************************************************)
(* The browser's side of an event.                                         *)
(***************************************************************************)
\* a dispatch starts with nothing thrown and propagation not stopped
dispatch(d) == [d EXCEPT !.uncaught = "none", !.propagationStopped = FALSE]

\* constraint validation of the form: the file input is required, so a form
\* whose file input is empty is invalid and no submit event is dispatched
formValid(d) == Len(d.files) > 0

\* a disabled submit control cannot be activated
canActivateSubmit(d) == ~d.submitBtnDisabled

\* lastEv: the event dispatched last, the file list it carried, the timer
\* that ticked, and whether the event before it was the remove click
event(op, files, timer) ==
    [op |-> op, files |-> files, timer |-> timer,
     afterRemove |-> lastEv.op = "remove"]

ByteCounts ==
    {<<d0, d1, d2, d3, d4>> :
        d0 \in {0, 1, 128, 512, 1023}, d1 \in {0, 1, 2, 512, 1023},
        d2 \in {0, 1, 1023}, d3 \in {0, 1, 1023}, d4 \in 0..MaxTopDigit}

Init ==
    /\ page \in {"script.js", "part_000"}
    /\ dom = InitialDom
    /\ timers = <<>>
    /\ lastEv = [op |-> "load", files |-> <<>>, timer |-> 0,
                 afterRemove |-> FALSE]
    /\ bytes = ByteCount(0)
    /\ formatted = ""

DragEnter ==
    /\ dom' = IF page = "script.js" THEN highlight(dispatch(dom))
              ELSE [dispatch(dom) EXCEPT !.dragging = TRUE]
    /\ lastEv' = event("dragenter", <<>>, 0)
    /\ UNCHANGED <<page, timers, bytes, formatted>>

DragOver ==
    /\ dom' = IF page = "script.js" THEN highlight(dispatch(dom))
              ELSE [dispatch(dom) EXCEPT !.dragging = TRUE]
    /\ lastEv' = event("dragover", <<>>, 0)
    /\ UNCHANGED <<page, timers, bytes, formatted>>

DragLeave ==
    /\ dom' = IF page = "script.js" THEN unhighlight(dispatch(dom))
              ELSE [dispatch(dom) EXCEPT !.dragging = FALSE]
    /\ lastEv' = event("dragleave", <<>>, 0)
    /\ UNCHANGED <<page, timers, bytes, formatted>>

Drop ==
    \E files \in FileLists :
        /\ dom' = IF page = "script.js" THEN handleDrop(dispatch(dom), files)
                  ELSE dropZoneDrop(dispatch(dom), files)
        /\ lastEv' = event("drop", files, 0)
        /\ UNCHANGED <<page, timers, bytes, formatted>>

\* the picker closes with the files chosen and the change event is dispatched
Change ==
    \E files \in FileLists :
        /\ dom' = IF page = "script.js"
                  THEN fileInputChange(
                           [dispatch(dom) EXCEPT !.pickerOpen = FALSE], files)
                  ELSE fileInputChangeB(
                           [dispatch(dom) EXCEPT !.pickerOpen = FALSE], files)
        /\ lastEv' = event("change", files, 0)
        /\ UNCHANGED <<page, timers, bytes, formatted>>

\* a click on the drop area or drop zone itself
ZoneClick ==
    /\ dom' = IF page = "script.js" THEN dropAreaClick(dispatch(dom))
              ELSE dropZoneClick(dispatch(dom))
    /\ lastEv' = event("click", <<>>, 0)
    /\ UNCHANGED <<page, timers, bytes, formatted>>

\* a click on the remove button: its listener runs, then the click bubbles
\* to the drop area unless propagation was stopped
RemoveClick ==
    /\ page = "script.js"
    /\ LET d == removeFile(dispatch(dom))
       IN  dom' = IF d.propagationStopped THEN d ELSE dropAreaClick(d)
    /\ lastEv' = event("remove", <<>>, 0)
    /\ UNCHANGED <<page, timers, bytes, formatted>>

LoadSample ==
    /\ page = "script.js"
    /\ dom' = loadSample(dispatch(dom))
    /\ lastEv' = event("loadSample", <<>>, 0)
    /\ UNCHANGED <<page, timers, bytes, formatted>>

\* the user asks for submission while the submit control is disabled or the
\* form is invalid: no submit event is dispatched, no listener runs
SubmitBlocked ==
    /\ ~(canActivateSubmit(dom) /\ formValid(dom))
    /\ lastEv' = event("submitBlocked", <<>>, 0)
    /\ UNCHANGED <<page, dom, timers, bytes, formatted>>

\* the user submits the form: the submit event is dispatched only if the
\* submit control can be activated and the form is valid
Submit ==
    /\ canActivateSubmit(dom)
    /\ formValid(dom)
    /\ IF page = "script.js"
       THEN /\ dom' = uploadFormSubmit(dispatch(dom), Len(timers) + 1)
            /\ timers' = Append(timers, 0)
       ELSE /\ dom' = uploadFormSubmitB(dispatch(dom))
            /\ timers' = timers
    /\ lastEv' = event("submit", <<>>, 0)
    /\ UNCHANGED <<page, bytes, formatted>>

\* one run of the interval callback of timer i, Math.random() * 10 being r
TickBy(i, r) ==
    LET p == nextProgress(timers[i], r)
    IN  /\ timers' = [timers EXCEPT ![i] = p]
        /\ dom' = progressTick(dispatch(dom), p)
        /\ lastEv' = event("tick", <<>>, i)
        /\ UNCHANGED <<page, bytes, formatted>>

Tick == \E i \in DOMAIN timers, r \in RandomIncrements : TickBy(i, r)

\* a run of the callback that adds a strictly positive amount
TickPositive ==
    \E i \in DOMAIN timers, r \in RandomIncrements \ {0} : TickBy(i, r)

Next ==
    \/ DragEnter
    \/ DragOver
    \/ DragLeave
    \/ Drop
    \/ Change
    \/ ZoneClick
    \/ RemoveClick
    \/ LoadSample
    \/ Submit
    \/ SubmitBlocked
    \/ Tick

Spec == Init /\ [][Next]_vars


(***************************************************************************)
(* The script.js page when the submit event can fire again after the first *)
(* submit, the submit control being disabled or not (form.requestSubmit(), *)
(* a further submit control).  At most MaxTimers submit events are taken.  *)
(***************************************************************************)
ResubmitInit ==
    /\ page = "script.js"
    /\ dom = InitialDom
    /\ timers = <<>>
    /\ lastEv = [op |-> "load", files |-> <<>>, timer |-> 0,
                 afterRemove |-> FALSE]
    /\ bytes = ByteCount(0)
    /\ formatted = ""

SubmitEvent ==
    /\ formValid(dom)
    /\ Len(timers) < MaxTimers
    /\ dom' = uploadFormSubmit(dispatch(dom), Len(timers) + 1)
    /\ timers' = Append(timers, 0)
    /\ lastEv' = event("submit", <<>>, 0)
    /\ UNCHANGED <<page, bytes, formatted>>

ResubmitNext ==
    \/ Drop
    \/ SubmitEvent
    \/ Tick

SpecResubmit == ResubmitInit /\ [][ResubmitNext]_vars

\* The upload page with the sample loader, the remove control and one
\* activation of the submit control. setInterval runs the callback again and
\* again, and Math.random() does not return 0 forever.
LiveNext == LoadSample \/ RemoveClick \/ SubmitBlocked \/ Submit \/ Tick

SpecLive == ResubmitInit /\ [][LiveNext]_vars /\ WF_vars(TickPositive)

(***************************************************************************)
(* The tooltips of the upload page: the pointer enters and leaves the      *)
(* titled elements.                                                        *)
(***************************************************************************)
MouseEnter ==
    \E el \in Titled \ dom.hovered :
        /\ Len(dom.body) < MaxTooltips
        /\ dom' = [mouseenter(dispatch(dom), el) EXCEPT !.hovered = @ \cup {el}]
        /\ lastEv' = event("mouseenter", <<>>, 0)
        /\ UNCHANGED <<page, timers, bytes, formatted>>

MouseLeave ==
    \E el \in dom.hovered :
        /\ dom' = [mouseleave(dispatch(dom), el) EXCEPT !.hovered = @ \ {el}]
        /\ lastEv' = event("mouseleave", <<>>, 0)
        /\ UNCHANGED <<page, timers, bytes, formatted>>

TooltipNext == MouseEnter \/ MouseLeave

SpecTooltip == ResubmitInit /\ [][TooltipNext]_vars

(***************************************************************************)
(* formatFileSize on its own: a byte count goes in, the size string comes  *)
(* out.                                                                    *)
(***************************************************************************)
FormatInit ==
    /\ page = "script.js"
    /\ dom = InitialDom
    /\ timers = <<>>
    /\ lastEv = [op |-> "load", files |-> <<>>, timer |-> 0,
                 afterRemove |-> FALSE]
    /\ bytes \in ByteCounts
    /\ formatted = ""

Format ==
    /\ formatted = ""
    /\ formatted' = formatFileSize(bytes)
    /\ UNCHANGED <<page, dom, timers, lastEv, bytes>>

FormatNext == Format

SpecFormat == FormatInit /\ [][FormatNext]_vars

(***************************************************************************)
(* Properties.                                                             *)
(***************************************************************************)
\* what the page shows and holds of the selection
Selection(d) ==
    [files |-> d.files, fileName |-> d.fileName, fileSize |-> d.fileSize,
     fileInfoDisplay |-> d.fileInfoDisplay,
     uploadPromptDisplay |-> d.uploadPromptDisplay,
     selectedFile |-> d.selectedFile]

\* the summary as displayed: "<name> (<size>)"
SummaryText(d) ==
    IF page = "script.js" THEN d.fileName \o " (" \o d.fileSize \o ")"
    ELSE d.selectedFile.strong \o d.selectedFile.text

PercentTexts == {ToString(n) \o "% Complete" : n \in 0..90}

\* C1: each timer's progress starts at 0, never decreases from one step to
\* the next and never exceeds 90; the percentage text written by a tick is
\* "<n>% Complete" with n the rounded progress, an integer in 0..90.
C1_ProgressCapped ==
    /\ [](\A i \in DOMAIN timers : timers[i] >= 0 /\ timers[i] <= 90 * Scale)
    /\ [](dom.progressText \in PercentTexts \cup {""})
    /\ [](lastEv.op = "tick" =>
            /\ dom.progressText \in PercentTexts
            /\ \E n \in 0..90 :
                /\ 2 * Scale * n <= 2 * timers[lastEv.timer] + Scale
                /\ 2 * timers[lastEv.timer] + Scale < 2 * Scale * (n + 1)
                /\ dom.progressText = ToString(n) \o "% Complete")
    /\ [][/\ \A i \in DOMAIN timers :
                i \in DOMAIN timers' /\ timers'[i] >= timers[i]
          /\ \A i \in DOMAIN timers' \ DOMAIN timers : timers'[i] = 0]_vars

\* C1 witness: a tick has brought the progress to the cap
C1_Witness ==
    /\ lastEv.op = "tick"
    /\ timers[lastEv.timer] = 90 * Scale
    /\ dom.progressText = "90% Complete"

\* C2: dropping an empty file list changes neither the file input's files
\* nor the displayed summary and throws nothing, on either page.
C2_DropEmptyNoOp ==
    [][(lastEv'.op = "drop" /\ lastEv'.files = <<>>) =>
          /\ Selection(dom') = Selection(dom)
          /\ dom'.uncaught = "none"]_vars

\* C3: after a drop of two or more files the file input holds exactly the
\* first file and the summary shows the first file.
C3_FirstFileOnly ==
    [][(lastEv'.op = "drop" /\ Len(lastEv'.files) >= 2) =>
          /\ dom'.files = <<lastEv'.files[1]>>
          /\ dom'.uncaught = "none"
          /\ IF page = "script.js"
             THEN dom'.fileName = lastEv'.files[1].name
             ELSE dom'.selectedFile.strong = lastEv'.files[1].name]_vars

\* C4: from every reachable state of the script.js page, remove followed by
\* selecting a file f (by drop, by the picker, or loadSample's file) gives
\* the selection state that the same selection gives on the page as loaded.
C4_RemoveResets ==
    page = "script.js" =>
        /\ \A f \in UserFiles :
            /\ Selection(handleDrop(removeFile(dom), <<f>>))
                 = Selection(handleDrop(InitialDom, <<f>>))
            /\ Selection(fileInputChange(removeFile(dom), <<f>>))
                 = Selection(fileInputChange(InitialDom, <<f>>))
        /\ Selection(loadSample(removeFile(dom)))
             = Selection(loadSample(InitialDom))

\* C4 witness: a file was selected, removed, and another file then selected,
\* and the page shows what a fresh page shows for that file
C4_Witness ==
    /\ page = "script.js"
    /\ lastEv.op = "drop"
    /\ lastEv.afterRemove
    /\ lastEv.files = <<sampleCsv>>
    /\ Selection(dom) = Selection(handleDrop(InitialDom, <<sampleCsv>>))
    /\ dom.optionsChecked

Phase(text) ==
    CASE text = "" -> 0
      [] text = "Validating file format..." -> 1
      [] text = "Initializing AI agent..." -> 2
      [] text = "Cleaning and enriching data..." -> 3

\* C6: after a tick the status text is 'Validating file format...' iff the
\* progress is below 30, 'Initializing AI agent...' iff it is at least 30 and
\* below 60, 'Cleaning and enriching data...' iff it is at least 60; the
\* status never moves back to an earlier phase.
C6_StatusByThreshold ==
    /\ [](lastEv.op = "tick" =>
            LET p == timers[lastEv.timer]
            IN  /\ dom.processingText = "Validating file format..."
                     <=> p < 30 * Scale
                /\ dom.processingText = "Initializing AI agent..."
                     <=> (30 * Scale <= p /\ p < 60 * Scale)
                /\ dom.processingText = "Cleaning and enriching data..."
                     <=> p >= 60 * Scale)
    /\ [][Phase(dom'.processingText) >= Phase(dom.processingText)]_vars

\* C6 witness: a tick has brought the progress to exactly 30
C6_Witness ==
    /\ lastEv.op = "tick"
    /\ timers[lastEv.timer] = 30 * Scale
    /\ dom.processingText = "Initializing AI agent..."

\* C7: when the file input is empty, or the selection has just been removed,
\* a request to submit dispatches no submit event: the overlay, the progress
\* container and the submit control stay as they are and no timer starts.
C7_NoSubmitWithoutFile ==
    [][((dom.files = <<>> \/ lastEv.op = "remove")
          /\ lastEv'.op \in {"submit", "submitBlocked"}) =>
          /\ lastEv'.op = "submitBlocked"
          /\ dom'.processingOverlayDisplay = dom.processingOverlayDisplay
          /\ dom'.progressContainerDisplay = dom.progressContainerDisplay
          /\ dom'.submitBtnDisabled = dom.submitBtnDisabled
          /\ timers' = timers]_vars

\* C7 witness: a file was selected and removed, submission was then asked
\* for, and nothing was shown, disabled or started
C7_Witness ==
    /\ lastEv.op = "submitBlocked"
    /\ lastEv.afterRemove
    /\ dom.fileName = "sample.csv"
    /\ dom.processingOverlayDisplay = "none"
    /\ ~dom.submitBtnDisabled
    /\ timers = <<>>

\* b / k^i >= 1
AtLeastPow(b, i) == \E j \in (i + 1)..Len(b) : b[j] # 0

\* the whole hundredths in b / k^i
FloorHundredths(b, i) ==
    100 * Quotient(b, i).int + MulFrac(Quotient(b, i).frac, 100).int

\* h hundredths is b / k^i rounded to two decimal places: 100 * b / k^i is
\* w plus a fraction; h is w when the fraction is at most 1/2 and w + 1 when
\* it is at least 1/2
RoundsTo(b, i, h) ==
    LET x    == Quotient(b, i)
        p    == MulFrac(x.frac, 100)
        w    == 100 * x.int + p.int
        low  == p.frac = <<>> \/ 2 * Head(p.frac) < k
                  \/ (2 * Head(p.frac) = k
                        /\ \A j \in 2..Len(p.frac) : p.frac[j] = 0)
        high == p.frac # <<>> /\ 2 * Head(p.frac) >= k
    IN  (h = w /\ low) \/ (h = w + 1 /\ high)

\* C8: the size string is '0 Bytes' for 0 bytes; otherwise it is b / 1024^i
\* rounded to two decimals, trailing zeros dropped, then the i-th of the
\* four labels, i being the largest exponent with b / 1024^i >= 1; 1024
\* gives '1 KB', 1048576 gives '1 MB', 1536 gives '1.5 KB'.
C8_SizeString ==
    formatted # "" =>
        /\ IF IsZeroBytes(bytes) THEN formatted = "0 Bytes"
           ELSE \E i \in 0..(Len(sizes) - 1) :
                   /\ AtLeastPow(bytes, i)
                   /\ \A j \in (i + 1)..Len(bytes) : ~AtLeastPow(bytes, j)
                   /\ \E h \in FloorHundredths(bytes, i)
                                  ..(FloorHundredths(bytes, i) + 1) :
                        /\ RoundsTo(bytes, i, h)
                        /\ formatted =
                             NumberToString(h) \o " " \o sizes[i + 1]
        /\ bytes = ByteCount(1024) => formatted = "1 KB"
        /\ bytes = ByteCount(1048576) => formatted = "1 MB"
        /\ bytes = ByteCount(1536) => formatted = "1.5 KB"

\* C9: the unit label of the size string is one of Bytes, KB, MB, GB, for
\* every byte count, 1024^4 and more included.
C9_LabelInSizes ==
    (formatted # "" /\ ~IsZeroBytes(bytes)) =>
        \E i \in 1..Len(sizes),
           h \in FloorHundredths(bytes, floorLogK(bytes))
                   ..(FloorHundredths(bytes, floorLogK(bytes)) + 1) :
            /\ RoundsTo(bytes, floorLogK(bytes), h)
            /\ formatted = NumberToString(h) \o " " \o sizes[i]

\* C10: after a drop of the single 2048-byte file sample.csv the summary
\* reads 'sample.csv (2 KB)', on either page.
C10_SampleSummary ==
    [][(lastEv'.op = "drop" /\ lastEv'.files = <<sampleCsv>>) =>
          /\ dom'.uncaught = "none"
          /\ IF page = "script.js"
             THEN dom'.fileName = "sample.csv" /\ dom'.fileSize = "2 KB"
             ELSE dom'.selectedFile.strong \o dom'.selectedFile.text
                    = "sample.csv (2 KB)"]_vars

\* the state after a drop, and after a picker change, carrying files
AfterDrop(d, files) ==
    IF page = "script.js" THEN handleDrop(d, files)
    ELSE dropZoneDrop(d, files)

AfterChange(d, files) ==
    IF page = "script.js" THEN fileInputChange(d, files)
    ELSE fileInputChangeB(d, files)

\* C11 as claimed: from every reachable state and for every file list, the
\* empty one included, a picker change and a drop carrying the list give the
\* same file input contents, summary and affordance visibility.
C11_PickEqualsDrop ==
    \A files \in FileLists :
        Selection(AfterChange(dom, files)) = Selection(AfterDrop(dom, files))

\* C11 amended: the same, for every non-empty file list.
C11_PickEqualsDropNonEmpty ==
    \A files \in FileLists \ {<<>>} :
        Selection(AfterChange(dom, files)) = Selection(AfterDrop(dom, files))

\* C11 witness: after an earlier selection the picker delivered two files;
\* the page holds and shows what a drop of the two would have given
C11_Witness ==
    /\ page = "script.js"
    /\ lastEv.op = "change"
    /\ lastEv.files = <<notesTxt, sampleCsv>>
    /\ dom.files = lastEv.files
    /\ dom.fileName = "notes.txt"
    /\ dom.fileSize = "1.5 KB"
    /\ dom.optionsChecked
    /\ Selection(dom) = Selection(AfterDrop(InitialDom, lastEv.files))

\* C12: a click on the remove button empties the file input, hides the
\* summary, shows the upload prompt, and does not open the file picker.
C12_RemoveClearsNoPicker ==
    [][lastEv'.op = "remove" =>
          /\ dom'.files = <<>>
          /\ dom'.fileInfoDisplay = "none"
          /\ dom'.uploadPromptDisplay = "block"
          /\ dom'.propagationStopped
          /\ dom'.pickerOpen = dom.pickerOpen]_vars

\* C12 witness: a selected file was removed and the picker is not open
C12_Witness ==
    /\ lastEv.op = "remove"
    /\ dom.fileName = "sample.csv"
    /\ dom.files = <<>>
    /\ dom.fileInfoDisplay = "none"
    /\ ~dom.pickerOpen

DragEvents == {"dragenter", "dragover", "dragleave", "drop"}

\* the zone is in its 'dragging' visual state
Dragging(d) ==
    IF page = "script.js" THEN d.borderColor = "#2563eb" ELSE d.dragging

ZoneStyle(d) == <<d.borderColor, d.backgroundColor, d.dragging>>

\* C13: the zone is in the dragging state after a dragenter or dragover, out
\* of it after a dragleave or drop, and no other event changes that, so it
\* is in the dragging state iff the most recent drag event was dragenter or
\* dragover; repeating a drag event leaves the style as it is; dragenter,
\* dragover and dragleave change neither the selected file nor its summary.
C13_DragVisual ==
    /\ [](lastEv.op = "load" => ~Dragging(dom))
    /\ [](page = "script.js" =>
            (dom.borderColor = "#2563eb" <=> dom.backgroundColor = "#f8fafc"))
    /\ [][lastEv'.op \in {"dragenter", "dragover"} => Dragging(dom')]_vars
    /\ [][lastEv'.op \in {"dragleave", "drop"} => ~Dragging(dom')]_vars
    /\ [][lastEv'.op \notin DragEvents =>
            Dragging(dom') = Dragging(dom)]_vars
    /\ [][(lastEv'.op \in DragEvents /\ lastEv'.op = lastEv.op) =>
            ZoneStyle(dom') = ZoneStyle(dom)]_vars
    /\ [][lastEv'.op \in {"dragenter", "dragover", "dragleave"} =>
            Selection(dom') = Selection(dom)]_vars

\* C13 witness: with a file selected, a drag has left the drop area, which
\* is back in its resting style
C13_Witness ==
    /\ page = "script.js"
    /\ lastEv.op = "dragleave"
    /\ dom.files = <<sampleCsv>>
    /\ dom.borderColor = "#e2e8f0"
    /\ ~Dragging(dom)

\* C14: after loadSample, from any state, the file input holds the single
\* file sample_providers.csv, the summary shows it exactly as a drop of that
\* file would, and every option checkbox is checked.
C14_LoadSample ==
    [][lastEv'.op = "loadSample" =>
          /\ dom'.files = <<sampleProviders>>
          /\ dom'.fileName = "sample_providers.csv"
          /\ dom'.fileSize = "443 Bytes"
          /\ dom'.fileInfoDisplay = "flex"
          /\ dom'.uploadPromptDisplay = "none"
          /\ Selection(dom') = Selection(handleDrop(dom, <<sampleProviders>>))
          /\ dom'.optionsChecked]_vars

\* C14 witness: a selection was removed and the sample then loaded
C14_Witness ==
    /\ lastEv.op = "loadSample"
    /\ lastEv.afterRemove
    /\ dom.files = <<sampleProviders>>
    /\ dom.fileName = "sample_providers.csv"
    /\ dom.fileSize = "443 Bytes"
    /\ dom.optionsChecked

\* C15: the submit listener stores the handle of the timer it starts on the
\* form; no step removes a timer, and a started timer can always tick again.
C15_TimerNeverCleared ==
    /\ [][(lastEv'.op = "submit" /\ page = "script.js") =>
            /\ DOMAIN timers' = DOMAIN timers \cup {Len(timers) + 1}
            /\ dom'.progressInterval = Len(timers) + 1]_vars
    /\ [](timers # <<>> => dom.progressInterval \in DOMAIN timers)
    /\ [][DOMAIN timers \subseteq DOMAIN timers']_vars
    /\ [](timers # <<>> => ENABLED Tick)

\* C15 witness: the timer has reached the cap, the selection was then
\* removed, and the timer is still there under its stored handle
C15_Witness ==
    /\ lastEv.op = "remove"
    /\ dom.progressInterval = 1
    /\ 1 \in DOMAIN timers
    /\ timers[1] = 90 * Scale
    /\ ENABLED Tick

\* C16: on the script.js page, in every reachable state, the summary is
\* visible iff the file input holds a file, and a visible summary shows the
\* name and size of the input's first file.
C16_SummaryMatchesInput ==
    page = "script.js" =>
        /\ dom.fileInfoDisplay = "flex" <=> dom.files # <<>>
        /\ (dom.fileInfoDisplay = "flex" /\ dom.files # <<>>) =>
              /\ dom.fileName = dom.files[1].name
              /\ dom.fileSize = formatFileSize(dom.files[1].size)

\* C17: at most one progress timer is active at any time; when the submit
\* event fires more than once, the displayed bar width and percentage never
\* decrease, and the stored handle is that of every timer still running.
C17_OneTimer ==
    /\ [][/\ dom'.progressBarWidth >= dom.progressBarWidth
          /\ (dom.progressText # "" /\ dom'.progressText # dom.progressText)
               => \E m, n \in 0..90 :
                     /\ m <= n
                     /\ dom.progressText = ToString(m) \o "% Complete"
                     /\ dom'.progressText = ToString(n) \o "% Complete"]_vars
    /\ [](\A i \in DOMAIN timers : dom.progressInterval = i)
    /\ [](Len(timers) <= 1)

\* C18: once a timer is started, its progress eventually reaches 90 and
\* stays there, and the status text eventually is and stays 'Cleaning and
\* enriching data...'.
C18_ReachesCap ==
    [](timers # <<>> =>
         <>[](/\ timers # <<>>
              /\ timers[1] = 90 * Scale
              /\ dom.progressBarWidth = 90 * Scale
              /\ dom.progressText = "90% Complete"
              /\ dom.processingText = "Cleaning and enriching data..."))

\* C18 witness: the progress was below the cap and a tick with a positive
\* amount was clamped to 90
C18_Witness ==
    /\ lastEv.op = "tick"
    /\ timers = <<90 * Scale>>
    /\ dom.progressBarWidth = 90 * Scale
    /\ dom.processingText = "Cleaning and enriching data..."
    /\ dom.fileName = "sample_providers.csv"

\* the tooltips of element el that are in the document
tooltipsOf(el) == {i \in DOMAIN dom.body : dom.body[i].textContent = title(el)}

\* C19: every titled element has at most one tooltip in the document, and
\* none once the pointer has left it.
C19_TooltipRemoved ==
    \A el \in Titled :
        /\ Cardinality(tooltipsOf(el)) <= 1
        /\ el \notin dom.hovered => tooltipsOf(el) = {}

====
